---- MODULE Spec2Model ----
(***************************************************************************)
(* Deadline reminder widget: App component (deadline, urgency classifier,  *)
(* reminder episodes, hourly timer check) and the Gemini content service.  *)
(* Time is counted in whole seconds of local time since Jan 1 00:00:00 of  *)
(* BaseYear; daylight-saving shifts are not modelled.                      *)
(***************************************************************************)
EXTENDS Integers, Sequences, FiniteSets, TLC

\* ---------------------------------------------------------------- bounds
MaxAdvances == 2
MaxEpisodes == 2

\* ---------------------------------------------------------------- time
BaseYear == 2024
LastYear == BaseYear + 2

Minute == 60
Hour   == 60 * Minute
Day    == 24 * Hour

PollInterval == Minute

IsLeap(y) == (y % 4 = 0) /\ ((y % 100 # 0) \/ (y % 400 = 0))

DaysInYear(y) == IF IsLeap(y) THEN 366 ELSE 365

\* month is 0-indexed, as in the Date constructor
DaysInMonth(y, m) ==
  CASE m = 1 -> IF IsLeap(y) THEN 29 ELSE 28
    [] m \in {3, 5, 8, 10} -> 30
    [] OTHER -> 31

RECURSIVE DaysBeforeMonth(_, _)
DaysBeforeMonth(y, m) ==
  IF m = 0 THEN 0 ELSE DaysBeforeMonth(y, m - 1) + DaysInMonth(y, m - 1)

RECURSIVE YearStart(_)
YearStart(y) ==
  IF y = BaseYear THEN 0 ELSE YearStart(y - 1) + DaysInYear(y - 1) * Day

\* new Date(year, month, day, h, mi, s)
MkDate(y, m, d, h, mi, s) ==
  YearStart(y) + (DaysBeforeMonth(y, m) + (d - 1)) * Day
    + h * Hour + mi * Minute + s

getFullYear(t) ==
  CHOOSE y \in BaseYear..LastYear : YearStart(y) <= t /\ t < YearStart(y + 1)

getHours(t) == (t \div Hour) % 24

Abs(x) == IF x < 0 THEN -x ELSE x

\* Math.ceil(a / b) for a >= 0, b > 0
Ceil(a, b) == (a + b - 1) \div b

\* ---------------------------------------------------------------- deadline
getDeadline_GE(t) ==
  LET year == getFullYear(t)
      deadline == MkDate(year, 10, 30, 23, 59, 59)
  IN  IF t >= deadline THEN MkDate(year + 1, 10, 30, 23, 59, 59) ELSE deadline

getDeadline(t) ==
  LET year == getFullYear(t)
      deadline == MkDate(year, 10, 30, 23, 59, 59)
  IN  IF t > deadline THEN MkDate(year + 1, 10, 30, 23, 59, 59) ELSE deadline

\* ---------------------------------------------------------------- classifier
UrgencyLevel == {"LOW", "MEDIUM", "HIGH", "CRITICAL"}

calculateUrgency_Strict(t, dl) ==
  LET diffTime  == Abs(dl - t)
      diffDays  == Ceil(diffTime, Day)
      diffHours == Ceil(diffTime, Hour)
      level == IF diffDays < 2 THEN "CRITICAL"
               ELSE IF diffDays < 7 THEN "HIGH"
               ELSE IF diffDays < 14 THEN "MEDIUM"
               ELSE "LOW"
  IN  [level |-> level, diffDays |-> diffDays, diffHours |-> diffHours]

calculateUrgency(t, dl) ==
  LET diffTime  == Abs(dl - t)
      diffDays  == Ceil(diffTime, Day)
      diffHours == Ceil(diffTime, Hour)
      level == IF diffDays <= 2 THEN "CRITICAL"
               ELSE IF diffDays <= 7 THEN "HIGH"
               ELSE IF diffDays <= 14 THEN "MEDIUM"
               ELSE "LOW"
  IN  [level |-> level, diffDays |-> diffDays, diffHours |-> diffHours]

\* ---------------------------------------------------------------- content service
\* a message is a sequence of characters; the literals of the source are
\* kept as single tokens
InitMessage   == <<"Initializing Safety Protocols...">>
FallbackEmpty == <<"fallback: complete the safety course now">>
FallbackError == <<"fallback: course due before Nov 30">>
NoText        == <<"undefined">>

IsSpace(c) == c = " "

RECURSIVE trimStart(_)
trimStart(s) ==
  IF s = <<>> THEN s
  ELSE IF IsSpace(Head(s)) THEN trimStart(Tail(s)) ELSE s

RECURSIVE trimEnd(_)
trimEnd(s) ==
  IF s = <<>> THEN s
  ELSE IF IsSpace(s[Len(s)]) THEN trimEnd(SubSeq(s, 1, Len(s) - 1)) ELSE s

trim(s) == trimEnd(trimStart(s))

\* what the remote text request may settle with
TextResponses ==
  { [kind |-> "error", text |-> NoText],
    [kind |-> "text",  text |-> NoText],
    [kind |-> "text",  text |-> <<" ", " ">>],
    [kind |-> "text",  text |-> <<" ", "a", " ">>] }

SpeechResponses == {"audio", "noAudio", "error"}

ImageResponses == {"image", "noImage", "error"}

getGenAI_NoCheck(g, key) ==
  IF g = "null" THEN [threw |-> FALSE, genAI |-> "client"]
  ELSE [threw |-> FALSE, genAI |-> g]

getGenAI(g, key) ==
  IF g = "null"
  THEN IF ~key THEN [threw |-> TRUE, genAI |-> g]
       ELSE [threw |-> FALSE, genAI |-> "client"]
  ELSE [threw |-> FALSE, genAI |-> g]

\* generateReminderText without the fallback for an empty text
generateReminderText_NoEmptyFallback(resp) ==
  IF resp.kind = "error" THEN FallbackError
  ELSE IF resp.text = NoText THEN NoText
  ELSE trim(resp.text)

generateReminderText_EmptyOnError(resp) ==
  IF resp.kind = "error" THEN <<>>
  ELSE IF resp.text = NoText \/ trim(resp.text) = <<>> THEN FallbackEmpty
  ELSE trim(resp.text)

\* the value generateReminderText resolves with once its request settled
generateReminderText(resp) ==
  IF resp.kind = "error" THEN FallbackError
  ELSE IF resp.text = NoText \/ trim(resp.text) = <<>> THEN FallbackEmpty
  ELSE trim(resp.text)

\* the value generateSpeech resolves with once its request settled
generateSpeech(resp) == IF resp = "audio" THEN "buffer" ELSE "null"

\* the imageUrl generateSafetyImage resolves with once its request settled
generateSafetyImage(resp) == IF resp = "image" THEN "data:image/png" ELSE "null"

\* ---------------------------------------------------------------- state
VARIABLES
  now,              \* the wall clock
  bootTime,         \* the instant read by getDeadline at module load
  DEADLINE,
  API_KEY,          \* TRUE iff process.env.API_KEY is set
  genAI,            \* "null" or "client"
  isSoundEnabled, showPopup, currentMessage, safetyImageUrl,
  isImageLoading, urgency, audioContext,
  lastHourCheckRef,
  sinceTick,        \* real time since the interval was armed or last fired
  advances,         \* number of clock advances so far
  imagePc,          \* the startup image request: "pending", "done", "rejected"
  episodes,         \* the triggerReminder invocations in flight, by start number
  started,          \* triggerReminder invocations so far
  autoStarted,      \* those of them made by the hour check
  unhandled,        \* promise rejections nobody handled so far
  imageCalls,       \* calls of generateSafetyImage so far
  imageLevel,       \* the tier the latest of them was given
  playbacks         \* audio buffers started so far (source.start)

vars == <<now, bootTime, DEADLINE, API_KEY, genAI, isSoundEnabled, showPopup,
          currentMessage, safetyImageUrl, isImageLoading, urgency,
          audioContext, lastHourCheckRef, sinceTick, advances,
          imagePc, episodes, started, autoStarted, unhandled,
          imageCalls, imageLevel, playbacks>>

Nov30(y) == MkDate(y, 10, 30, 23, 59, 59)

\* startup instants of the application runs
StartInstants ==
  { MkDate(BaseYear, 10, 1, 10, 59, 0),      \* Nov 1, 10:59
    Nov30(BaseYear) - 2 * Day - 1 }

\* startup instants around the deadline and the tier boundaries
ClockInstants ==
  StartInstants \cup
  { MkDate(BaseYear, 11, 1, 0, 0, 0),        \* Dec 1
    Nov30(BaseYear),
    Nov30(BaseYear) - Hour,
    Nov30(BaseYear) - 2 * Day,
    Nov30(BaseYear) - 7 * Day,
    Nov30(BaseYear) - 7 * Day - 1,
    Nov30(BaseYear) - 14 * Day,
    Nov30(BaseYear) - 14 * Day - 1,
    MkDate(BaseYear, 11, 31, 23, 59, 0),     \* Dec 31, 23:59
    MkDate(BaseYear + 1, 0, 1, 0, 0, 0) }    \* Jan 1 of the next year

\* how far the clock may move between two steps of the program: a minute,
\* several hours, a whole number of days
ClockSteps == {Minute, 2 * Hour, 3 * Day}

\* module load, first render and the mount effects (the classifier runs and
\* the image request is made)
InitAt(instants) ==
  /\ now \in instants
  /\ bootTime = now
  /\ DEADLINE = getDeadline(now)
  /\ API_KEY \in BOOLEAN
  /\ genAI = getGenAI("null", API_KEY).genAI
  /\ isSoundEnabled = TRUE
  /\ showPopup = FALSE
  /\ currentMessage = InitMessage
  /\ safetyImageUrl = "null"
  /\ isImageLoading = TRUE
  /\ urgency = calculateUrgency(now, DEADLINE).level
  /\ audioContext = "null"
  /\ lastHourCheckRef = getHours(now)
  /\ sinceTick = 0
  /\ advances = 0
  /\ imagePc = IF getGenAI("null", API_KEY).threw THEN "rejected" ELSE "pending"
  /\ episodes = <<>>
  /\ started = 0
  /\ autoStarted = 0
  /\ unhandled = IF getGenAI("null", API_KEY).threw THEN 1 ELSE 0
  /\ imageCalls = 1
  /\ imageLevel = calculateUrgency(now, DEADLINE).level
  /\ playbacks = 0

Init == InitAt(StartInstants)

\* ---------------------------------------------------------------- operations
Min(a, b) == IF a < b THEN a ELSE b

Without(f, i) == [j \in DOMAIN f \ {i} |-> f[j]]

With(f, i, v) == [j \in DOMAIN f \cup {i} |-> IF j = i THEN v ELSE f[j]]

initAudio == audioContext' = IF audioContext = "null" THEN "ctx" ELSE audioContext

\* triggerReminder with a classifier that keeps state between calls: a call
\* that finds its own tier already stored escalates it
triggerReminder_HiddenState(manual) ==
  LET u == calculateUrgency(now, DEADLINE)
      g == getGenAI(genAI, API_KEY)
  IN  /\ started' = started + 1
      /\ autoStarted' = IF manual THEN autoStarted ELSE autoStarted + 1
      /\ urgency' = IF urgency = u.level /\ u.level # "CRITICAL"
                    THEN "CRITICAL" ELSE u.level
      /\ genAI' = g.genAI
      /\ IF g.threw
         THEN /\ unhandled' = unhandled + 1
              /\ UNCHANGED episodes
         ELSE /\ episodes' = With(episodes, started + 1,
                   [ sound |-> isSoundEnabled,
                     pc    |-> "text",
                     text  |-> NoText ])
              /\ UNCHANGED unhandled

\* triggerReminder up to its first suspension: the classifier runs, then
\* generateReminderText either issues its request or is rejected by getGenAI.
\* An invocation in flight keeps what it still reads: the isSoundEnabled its
\* closure captured, where it is suspended, and its text.
triggerReminder(manual) ==
  LET u == calculateUrgency(now, DEADLINE)
      g == getGenAI(genAI, API_KEY)
  IN  /\ started' = started + 1
      /\ autoStarted' = IF manual THEN autoStarted ELSE autoStarted + 1
      /\ urgency' = u.level
      /\ genAI' = g.genAI
      /\ IF g.threw
         THEN /\ unhandled' = unhandled + 1
              /\ UNCHANGED episodes
         ELSE /\ episodes' = With(episodes, started + 1,
                   [ sound |-> isSoundEnabled,
                     pc    |-> "text",
                     text  |-> NoText ])
              /\ UNCHANGED unhandled

\* time passes (a running page, a throttled tab or a suspended machine)
AdvanceClock(d) ==
  /\ advances < MaxAdvances
  /\ advances' = advances + 1
  /\ now' = now + d
  /\ sinceTick' = Min(PollInterval, sinceTick + d)
  /\ UNCHANGED <<imageCalls, imageLevel, playbacks,
                 bootTime, DEADLINE, API_KEY, genAI, isSoundEnabled, showPopup,
                 currentMessage, safetyImageUrl, isImageLoading, urgency,
                 audioContext, lastHourCheckRef, imagePc, episodes,
                 started, autoStarted, unhandled>>

HourlyTimerCheck_KeepsHour ==
  /\ sinceTick >= PollInterval
  /\ sinceTick' = 0
  /\ IF getHours(now) # lastHourCheckRef
     THEN /\ started < MaxEpisodes
          /\ lastHourCheckRef' = lastHourCheckRef
          /\ triggerReminder(FALSE)
     ELSE UNCHANGED <<lastHourCheckRef, urgency, genAI, episodes, started,
                      autoStarted, unhandled>>
  /\ UNCHANGED <<imageCalls, imageLevel, playbacks, now, bootTime,
                 DEADLINE, API_KEY, isSoundEnabled, showPopup,
                 currentMessage, safetyImageUrl, isImageLoading, audioContext,
                 advances, imagePc>>

\* the setInterval callback
HourlyTimerCheck ==
  /\ sinceTick >= PollInterval
  /\ sinceTick' = 0
  /\ IF getHours(now) # lastHourCheckRef
     THEN /\ started < MaxEpisodes
          /\ lastHourCheckRef' = getHours(now)
          /\ triggerReminder(FALSE)
     ELSE UNCHANGED <<lastHourCheckRef, urgency, genAI, episodes, started,
                      autoStarted, unhandled>>
  /\ UNCHANGED <<imageCalls, imageLevel, playbacks, now, bootTime,
                 DEADLINE, API_KEY, isSoundEnabled, showPopup,
                 currentMessage, safetyImageUrl, isImageLoading, audioContext,
                 advances, imagePc>>

\* TestReminderClick recording the hour as the timer callback does
TestReminderClick_ObservesHour ==
  /\ started < MaxEpisodes
  /\ initAudio
  /\ triggerReminder(TRUE)
  /\ lastHourCheckRef' = getHours(now)
  /\ UNCHANGED <<imageCalls, imageLevel, playbacks, now, bootTime,
                 DEADLINE, API_KEY, isSoundEnabled, showPopup,
                 currentMessage, safetyImageUrl, isImageLoading,
                 sinceTick, advances, imagePc>>

\* the TEST REMINDER button
TestReminderClick ==
  /\ started < MaxEpisodes
  /\ initAudio
  /\ triggerReminder(TRUE)
  /\ UNCHANGED <<imageCalls, imageLevel, playbacks, now, bootTime,
                 DEADLINE, API_KEY, isSoundEnabled, showPopup,
                 currentMessage, safetyImageUrl, isImageLoading,
                 lastHourCheckRef, sinceTick, advances, imagePc>>

\* ToggleSound with the image effect depending on the sound preference too
ToggleSound_Refetch ==
  /\ initAudio
  /\ isSoundEnabled' = ~isSoundEnabled
  /\ sinceTick' = 0
  /\ imageCalls' = imageCalls + 1
  /\ imageLevel' = urgency
  /\ imagePc' = IF getGenAI(genAI, API_KEY).threw THEN "rejected" ELSE "pending"
  /\ isImageLoading' = TRUE
  /\ UNCHANGED <<playbacks, now, bootTime,
                 DEADLINE, API_KEY, genAI, showPopup,
                 currentMessage, safetyImageUrl, urgency,
                 lastHourCheckRef, advances, episodes,
                 started, autoStarted, unhandled>>

\* the sound button; the new isSoundEnabled gives triggerReminder a new
\* identity, so the timer effect is cleaned up and run again
ToggleSound ==
  /\ initAudio
  /\ isSoundEnabled' = ~isSoundEnabled
  /\ sinceTick' = 0
  /\ UNCHANGED <<imageCalls, imageLevel, playbacks, now, bootTime,
                 DEADLINE, API_KEY, genAI, showPopup,
                 currentMessage, safetyImageUrl, isImageLoading, urgency,
                 lastHourCheckRef, advances, imagePc, episodes,
                 started, autoStarted, unhandled>>

\* DismissPopup with the invocations in flight abandoned
DismissPopup_Cancels ==
  /\ showPopup
  /\ showPopup' = FALSE
  /\ episodes' = <<>>
  /\ UNCHANGED <<imageCalls, imageLevel, playbacks, now, bootTime,
                 DEADLINE, API_KEY, genAI, isSoundEnabled,
                 currentMessage, safetyImageUrl, isImageLoading, urgency,
                 audioContext, lastHourCheckRef, sinceTick,
                 advances, imagePc, started, autoStarted, unhandled>>

\* the backdrop and the dismiss button, rendered only while the popup shows
DismissPopup ==
  /\ showPopup
  /\ showPopup' = FALSE
  /\ UNCHANGED <<imageCalls, imageLevel, playbacks, now, bootTime,
                 DEADLINE, API_KEY, genAI, isSoundEnabled,
                 currentMessage, safetyImageUrl, isImageLoading, urgency,
                 audioContext, lastHourCheckRef, sinceTick,
                 advances, imagePc, episodes, started, autoStarted, unhandled>>

\* TextSettles with the reveal held back until the audio is there
TextSettles_RevealAfterSpeech(i, resp) ==
  /\ episodes[i].pc = "text"
  /\ LET text == generateReminderText(resp)
         g    == getGenAI(genAI, API_KEY)
     IN  IF episodes[i].sound
         THEN /\ genAI' = g.genAI
              /\ UNCHANGED <<currentMessage, showPopup>>
              /\ IF g.threw
                 THEN /\ unhandled' = unhandled + 1
                      /\ episodes' = Without(episodes, i)
                 ELSE /\ episodes' = [episodes EXCEPT ![i].text = text,
                                                      ![i].pc = "speech"]
                      /\ UNCHANGED unhandled
         ELSE /\ currentMessage' = text
              /\ showPopup' = TRUE
              /\ episodes' = Without(episodes, i)
              /\ UNCHANGED <<genAI, unhandled>>
  /\ UNCHANGED <<imageCalls, imageLevel, playbacks, now, bootTime,
                 DEADLINE, API_KEY, isSoundEnabled,
                 safetyImageUrl, isImageLoading, urgency, audioContext,
                 lastHourCheckRef, sinceTick, advances, imagePc,
                 started, autoStarted>>

\* the text request of episode i settles; triggerReminder resumes up to its
\* second suspension or its end
TextSettles(i, resp) ==
  /\ episodes[i].pc = "text"
  /\ LET text == generateReminderText(resp)
         g    == getGenAI(genAI, API_KEY)
     IN  /\ currentMessage' = text
         /\ showPopup' = TRUE
         /\ IF episodes[i].sound
            THEN /\ genAI' = g.genAI
                 /\ IF g.threw
                    THEN /\ unhandled' = unhandled + 1
                         /\ episodes' = Without(episodes, i)
                    ELSE /\ episodes' = [episodes EXCEPT ![i].text = text,
                                                         ![i].pc = "speech"]
                         /\ UNCHANGED unhandled
            ELSE /\ episodes' = Without(episodes, i)
                 /\ UNCHANGED <<genAI, unhandled>>
  /\ UNCHANGED <<imageCalls, imageLevel, playbacks, now, bootTime,
                 DEADLINE, API_KEY, isSoundEnabled,
                 safetyImageUrl, isImageLoading, urgency, audioContext,
                 lastHourCheckRef, sinceTick, advances, imagePc,
                 started, autoStarted>>

\* SpeechSettles with the buffer test left out
SpeechSettles_PlaysNull(i, resp) ==
  /\ episodes[i].pc = "speech"
  /\ playbacks' = playbacks + 1
  /\ episodes' = Without(episodes, i)
  /\ UNCHANGED <<imageCalls, imageLevel, now, bootTime,
                 DEADLINE, API_KEY, genAI, isSoundEnabled,
                 showPopup, currentMessage, safetyImageUrl, isImageLoading,
                 urgency, audioContext, lastHourCheckRef, sinceTick,
                 advances, imagePc, started, autoStarted, unhandled>>

\* the speech request of episode i settles; a buffer is played, and the
\* invocation ends
SpeechSettles(i, resp) ==
  /\ episodes[i].pc = "speech"
  /\ playbacks' = IF generateSpeech(resp) # "null" THEN playbacks + 1
                  ELSE playbacks
  /\ episodes' = Without(episodes, i)
  /\ UNCHANGED <<imageCalls, imageLevel, now, bootTime,
                 DEADLINE, API_KEY, genAI, isSoundEnabled,
                 showPopup, currentMessage, safetyImageUrl, isImageLoading,
                 urgency, audioContext, lastHourCheckRef, sinceTick,
                 advances, imagePc, started, autoStarted, unhandled>>

\* the startup image request settles
ImageSettles(resp) ==
  /\ imagePc = "pending"
  /\ imagePc' = "done"
  /\ safetyImageUrl' = generateSafetyImage(resp)
  /\ isImageLoading' = FALSE
  /\ UNCHANGED <<imageCalls, imageLevel, playbacks, now, bootTime,
                 DEADLINE, API_KEY, genAI, isSoundEnabled,
                 showPopup, currentMessage, urgency, audioContext,
                 lastHourCheckRef, sinceTick, advances, episodes,
                 started, autoStarted, unhandled>>

Next ==
  \/ \E d \in ClockSteps : AdvanceClock(d)
  \/ HourlyTimerCheck
  \/ TestReminderClick
  \/ ToggleSound
  \/ DismissPopup
  \/ \E i \in DOMAIN episodes : \E resp \in TextResponses : TextSettles(i, resp)
  \/ \E i \in DOMAIN episodes : \E resp \in SpeechResponses : SpeechSettles(i, resp)
  \/ \E resp \in ImageResponses : ImageSettles(resp)

Spec == Init /\ [][Next]_vars

\* the clock, the deadline and the classifier: every startup instant of
\* ClockInstants, the clock and the two triggers
ClockInit == InitAt(ClockInstants)

ClockNext ==
  \/ \E d \in ClockSteps : AdvanceClock(d)
  \/ HourlyTimerCheck
  \/ TestReminderClick

SpecClock == ClockInit /\ [][ClockNext]_vars

\* ---------------------------------------------------------------- properties
\* the claims' own reading of the quantities, written without the operators
\* of the model

\* d is ceil(|dl - t| / 24h)
IsDaysLeft(d, t, dl) ==
  LET a == IF dl >= t THEN dl - t ELSE t - dl
  IN  d * (24 * 3600) >= a /\ (d - 1) * (24 * 3600) < a

TierOfDays(d) ==
  CASE d <= 2             -> "CRITICAL"
    [] 3 <= d /\ d <= 7   -> "HIGH"
    [] 8 <= d /\ d <= 14  -> "MEDIUM"
    [] d > 14             -> "LOW"

\* the tier the claims expect at clock value t
ExpectedTier(t, dl) ==
  TierOfDays(CHOOSE d \in 0..800 : IsDaysLeft(d, t, dl))

HourOfDay(t) == (t % (24 * 3600)) \div 3600

\* Nov 30 23:59:59 of year y: the second before Dec 1 of y
EndOfNov30(y) == MkDate(y, 11, 1, 0, 0, 0) - 1

\* a step of the interval callback: the interval was due and is re-armed, and
\* the sound preference (whose change also re-arms it) stays
TickStep ==
  sinceTick >= PollInterval /\ sinceTick' = 0 /\ isSoundEnabled' = isSoundEnabled

\* a step in which triggerReminder is invoked
StartStep == started' = started + 1

\* a step in which the text request of an episode in flight settles
TextSettleStep ==
  \E i \in DOMAIN episodes :
    /\ episodes[i].pc = "text"
    /\ (i \notin DOMAIN episodes' \/ episodes'[i].pc # "text")

\* C1: at every clock value the classifier yields daysLeft =
\* ceil(|deadline - now| / 24h) and the tier CRITICAL for daysLeft <= 2, HIGH
\* for 3..7, MEDIUM for 8..14, LOW above 14; and every invocation of
\* triggerReminder stores that tier in urgency.
C1_ClassifierTiers ==
  /\ [](LET r == calculateUrgency(now, DEADLINE)
        IN  /\ IsDaysLeft(r.diffDays, now, DEADLINE)
            /\ r.level = TierOfDays(r.diffDays))
  /\ [][StartStep => urgency' = ExpectedTier(now, DEADLINE)]_vars

\* C1 witness: an episode was started exactly 14 days before the deadline and
\* the tier shown is MEDIUM
C1_Witness ==
  /\ started >= 1
  /\ DEADLINE - now = 14 * Day
  /\ urgency = "MEDIUM"

\* C2: the deadline is Nov 30 23:59:59 of the startup year when the startup
\* instant is not later than that, else Nov 30 23:59:59 of the next year; it
\* is never earlier than the startup instant.
C2_DeadlineRollover ==
  \E y \in BaseYear..LastYear :
    /\ YearStart(y) <= bootTime /\ bootTime < YearStart(y + 1)
    /\ DEADLINE = IF bootTime <= EndOfNov30(y) THEN EndOfNov30(y)
                  ELSE EndOfNov30(y + 1)
    /\ DEADLINE >= bootTime

\* C2 witness: started on Dec 1, the deadline is Nov 30 of the next year
C2_Witness ==
  /\ bootTime = MkDate(BaseYear, 11, 1, 0, 0, 0)
  /\ DEADLINE = EndOfNov30(BaseYear + 1)
  /\ started >= 1

\* what the claims require of a step in which a text request fails or throws
RevealedWithoutRejection ==
  /\ Len(currentMessage') > 0
  /\ currentMessage' # NoText
  /\ showPopup' = TRUE
  /\ unhandled' = unhandled

C4_NoSpeechWhileSoundOff ==
  [][\A i \in DOMAIN episodes :
       (/\ episodes[i].pc = "text"
        /\ i \in DOMAIN episodes'
        /\ episodes'[i].pc = "speech") => isSoundEnabled]_vars

\* C5: a polling tick starts an automatic episode exactly when the hour of
\* day differs from the last-observed hour, and then stores the current hour;
\* otherwise it starts nothing and leaves the last-observed hour; no other
\* step starts an automatic episode or changes the last-observed hour.
C5_HourEdge ==
  [][/\ TickStep =>
          IF HourOfDay(now) # lastHourCheckRef
          THEN /\ autoStarted' = autoStarted + 1
               /\ started' = started + 1
               /\ lastHourCheckRef' = HourOfDay(now)
          ELSE /\ autoStarted' = autoStarted
               /\ started' = started
               /\ lastHourCheckRef' = lastHourCheckRef
     /\ ~TickStep =>
          /\ autoStarted' = autoStarted
          /\ lastHourCheckRef' = lastHourCheckRef]_vars

\* C5 witness: started at 10:59, ticks at 11:00 and 11:01 and nothing else
\* (no click, no toggle): one automatic episode, last-observed hour 11
C5_Witness ==
  /\ bootTime = MkDate(BaseYear, 10, 1, 10, 59, 0)
  /\ now = bootTime + 2 * Minute
  /\ sinceTick = 0
  /\ audioContext = "null"
  /\ lastHourCheckRef = 11
  /\ autoStarted = 1 /\ started = 1

\* C6 as claimed: at most one triggerReminder invocation is in flight.
C6_AtMostOneActive == Cardinality(DOMAIN episodes) <= 1

\* C7 as claimed: after every polling tick the automatic episodes started
\* are as many as the calendar-hour boundaries crossed since startup.
C7_OncePerBoundary ==
  [][TickStep => autoStarted' = (now \div 3600) - (bootTime \div 3600)]_vars

\* C8 as claimed: an invocation made after the deadline reports CRITICAL.
C8_OverdueIsCritical ==
  [][(StartStep /\ now > DEADLINE) => urgency' = "CRITICAL"]_vars

\* C9 as claimed: the urgency shown is the tier of the current clock value.
C9_UrgencyTracksClock == urgency = ExpectedTier(now, DEADLINE)

\* C10: while the credential is absent no client exists, every call made so
\* far (the startup image call and the text call of every episode) was
\* rejected, no request is in flight, and no fallback value was delivered.
C10_NoCredentialFails ==
  ~API_KEY =>
    /\ genAI = "null"
    /\ unhandled = started + 1
    /\ episodes = <<>>
    /\ imagePc = "rejected"
    /\ safetyImageUrl = "null" /\ isImageLoading
    /\ currentMessage = InitMessage /\ ~showPopup

\* C10 witness: no credential, two episodes tried one after the other
C10_Witness ==
  /\ ~API_KEY
  /\ started = 2
  /\ unhandled = 3
  /\ now > bootTime

\* a step in which the speech request of episode i is issued
SpeechIssued(i) ==
  /\ i \in DOMAIN episodes'
  /\ episodes'[i].pc = "speech"
  /\ (i \notin DOMAIN episodes \/ episodes[i].pc # "speech")

C12_PlaybackOnce ==
  [][/\ playbacks' \in {playbacks, playbacks + 1}
     /\ playbacks' # playbacks =>
          \E i \in DOMAIN episodes :
            /\ episodes[i].pc = "speech"
            /\ episodes[i].sound
            /\ i \notin DOMAIN episodes'
     /\ \A i \in DOMAIN episodes :
          (episodes[i].pc = "speech" /\ i \notin DOMAIN episodes') =>
            \A resp \in SpeechResponses :
              SpeechSettles(i, resp) =>
                IF resp = "audio"
                THEN playbacks' = playbacks + 1
                ELSE /\ playbacks' = playbacks
                     /\ \A j \in 1..MaxEpisodes + 1 : ~SpeechIssued(j)
                     /\ currentMessage' = currentMessage
                     /\ showPopup' = showPopup]_vars

\* C12 witness: two automatic episodes, both started with sound enabled (the
\* sound button was never used), have ended; one speech request returned a
\* buffer and it was played, the other returned none
C12_Witness ==
  /\ autoStarted = 2 /\ started = 2
  /\ isSoundEnabled /\ audioContext = "null"
  /\ episodes = <<>>
  /\ playbacks = 1
  /\ showPopup

ManualStep == StartStep /\ autoStarted' = autoStarted

\* C14: the manual trigger can be used in every state, whatever the hour of
\* day and the last-observed hour are (below the bound on episodes), and it
\* starts an episode without touching the last-observed hour, the clock or
\* the timer: whether the next tick finds the hour changed is as it was.
C14_ManualBypassesHourCheck ==
  /\ [](started < MaxEpisodes => ENABLED TestReminderClick)
  /\ [][ManualStep =>
          /\ lastHourCheckRef' = lastHourCheckRef
          /\ sinceTick' = sinceTick
          /\ now' = now
          /\ (API_KEY => started + 1 \in DOMAIN episodes')]_vars

\* C14 witness: the hour changed from 10 to 11, a manual episode was started
\* before the timer found it, and the tick is still to find the change
C14_Witness ==
  /\ bootTime = MkDate(BaseYear, 10, 1, 10, 59, 0)
  /\ now = bootTime + Minute
  /\ started = 1 /\ autoStarted = 0
  /\ lastHourCheckRef = 10
  /\ sinceTick >= PollInterval

\* C15 as claimed: a text response of an earlier episode never overwrites the
\* message of a later one: when the text request of episode i settles after
\* a later-started episode has delivered its text, currentMessage stays (so
\* that, once all have delivered, it is the text of the latest episode).
C15_LatestEpisodeWins ==
  [][\A i \in DOMAIN episodes :
       (/\ episodes[i].pc = "text"
        /\ (i \notin DOMAIN episodes' \/ episodes'[i].pc # "text")
        /\ \E j \in (i + 1)..started :
             j \notin DOMAIN episodes \/ episodes[j].pc # "text")
       => currentMessage' = currentMessage]_vars

\* a step that hides the popup
DismissStep == showPopup /\ ~showPopup'

\* C16: dismissing the popup changes showPopup and nothing else:
\* currentMessage, urgency, the sound preference, the last-observed hour and
\* the timer stay, and every invocation in flight stays where it was; and an
\* invocation in flight, in whatever state, can always take its next step
\* (its text request or its speech request can settle).
C16_DismissOnlyHides ==
  /\ [][DismissStep =>
          UNCHANGED <<now, bootTime, DEADLINE, API_KEY, genAI, isSoundEnabled,
                      currentMessage, safetyImageUrl, isImageLoading, urgency,
                      audioContext, lastHourCheckRef, sinceTick, advances,
                      imagePc, episodes, started, autoStarted, unhandled,
                      imageCalls, imageLevel, playbacks>>]_vars
  /\ [](\A i \in DOMAIN episodes :
          \/ ENABLED (\E resp \in TextResponses : TextSettles(i, resp))
          \/ ENABLED (\E resp \in SpeechResponses : SpeechSettles(i, resp)))

\* C16 witness: the popup of an episode was dismissed while its speech
\* request was pending; the text stays and the request is still in flight
C16_Witness ==
  /\ started = 1
  /\ ~showPopup
  /\ currentMessage = <<"a">>
  /\ 1 \in DOMAIN episodes
  /\ episodes[1].pc = "speech"

\* C17: generateSafetyImage is called exactly once, at startup, with the tier
\* classified at startup; no step calls it again or puts an image request in
\* flight, and safetyImageUrl changes only when that one request settles.
C17_ImageRequestedOnce ==
  /\ [](/\ imageCalls = 1
        /\ imageLevel = ExpectedTier(bootTime, DEADLINE))
  /\ [][/\ imagePc' = "pending" => imagePc = "pending"
        /\ safetyImageUrl' # safetyImageUrl =>
             (imagePc = "pending" /\ imagePc' = "done")]_vars

\* C17 witness: the image of the startup tier has arrived; since then the
\* tier has changed, the sound was switched off and a popup was dismissed
C17_Witness ==
  /\ imageCalls = 1
  /\ safetyImageUrl # "null"
  /\ started >= 1
  /\ urgency # imageLevel
  /\ ~isSoundEnabled
  /\ ~showPopup /\ currentMessage # InitMessage

\* C18 as claimed: once the startup image call has settled, whatever its
\* outcome (an image, no image, a provider failure, or the rejection for a
\* missing credential), isImageLoading is false.
C18_LoadingEnds == imagePc # "pending" => ~isImageLoading

\* C19 as claimed: no user command cancels or postpones the periodic hour
\* check: the time counted since the last check (or since startup) starts
\* again from zero only in the step that makes the check.
C19_CheckNotPostponed ==
  [][sinceTick' < sinceTick => TickStep]_vars

\* C20: currentMessage is a non-empty string in every reachable state: the
\* initial text, and after an episode has written to it, whether the provider
\* returned a text, a blank or missing text, or failed.
C20_MessageNonEmpty ==
  /\ currentMessage \in Seq(STRING)
  /\ Len(currentMessage) > 0
  /\ currentMessage # NoText

\* C20 witness: the provider answered with a blank text and the fallback for
\* an empty text is shown
C20_Witness ==
  /\ started = 1
  /\ episodes = <<>>
  /\ currentMessage = FallbackEmpty
  /\ showPopup

====
